---- MODULE Spec2Model ----
(***************************************************************************)
(* Model of VeryComplicatedClass (src/_black.py): a configuration          *)
(* dictionary is processed entry by entry; each value is dispatched on its *)
(* runtime type and the computed value is stored in internal_state.        *)
(*                                                                         *)
(* Python values are tagged records [t |-> type, v |-> payload]:           *)
(*   str   : sequence of ASCII code points                                 *)
(*   int   : integer (unbounded, as in Python)                             *)
(*   bool  : BOOLEAN (a subclass of int in Python)                         *)
(*   float : integer number of hundredths (3.14 is 314)                    *)
(*   list  : sequence of values                                            *)
(*   dict  : sequence of [key, value] items in insertion order             *)
(*   set   : set of integers                                               *)
(*   none  : the None object                                               *)
(***************************************************************************)
EXTENDS Integers, Sequences, FiniteSets, TLC

VARIABLES config, internal_state, pc, idx, calls, written, helper_log, printed

vars == <<config, internal_state, pc, idx, calls, written, helper_log, printed>>

(* ------------------------------ bounds --------------------------------- *)

MaxEntries == 2
MaxCalls == 2
MaxAbs == 102
MaxPieces == 3
MaxListLen == 6
MaxDictLen == 3

(* ------------------------------ values --------------------------------- *)

PyStr(s) == [t |-> "str", v |-> s]
PyInt(n) == [t |-> "int", v |-> n]
PyBool(b) == [t |-> "bool", v |-> b]
PyFloat(h) == [t |-> "float", v |-> h]
PyList(l) == [t |-> "list", v |-> l]
PyDict(d) == [t |-> "dict", v |-> d]
PySet(s) == [t |-> "set", v |-> s]
PyNone == [t |-> "none", v |-> 0]

Item(k, x) == [key |-> k, value |-> x]

\* "error", "success", "hello" as code points
ERROR_LC == <<101, 114, 114, 111, 114>>
SUCCESS_LC == <<115, 117, 99, 99, 101, 115, 115>>
HELLO == <<104, 101, 108, 108, 111>>

\* the integer a Python int or bool stands for in arithmetic
IntOf(x) == IF x.t = "bool" THEN (IF x.v THEN 1 ELSE 0) ELSE x.v

\* isinstance(x, int): bool is a subclass of int
IsInstanceInt(x) == x.t \in {"int", "bool"}

\* isinstance(x, str)
IsInstanceStr(x) == x.t = "str"

\* isinstance(x, (int, float))
IsInstanceIntFloat(x) == x.t \in {"int", "bool", "float"}

(* --------------------------- dict operations --------------------------- *)

DictKeys(d) == {d[i].key : i \in 1..Len(d)}

DictHas(d, k) == \E i \in 1..Len(d) : d[i].key = k

DictGet(d, k) == d[CHOOSE i \in 1..Len(d) : d[i].key = k].value

\* mutant: an assignment that always adds an item
DictSetAppend(d, k, x) == Append(d, Item(k, x))

\* d[k] = x : overwrite in place when the key exists, append otherwise
DictSet(d, k, x) ==
    IF DictHas(d, k)
    THEN [i \in 1..Len(d) |-> IF d[i].key = k THEN Item(k, x) ELSE d[i]]
    ELSE Append(d, Item(k, x))

(* --------------------------- str operations ---------------------------- *)

\* str.lower() on ASCII
Lower(s) == [i \in 1..Len(s) |-> IF s[i] \in 65..90 THEN s[i] + 32 ELSE s[i]]

\* str.upper() on ASCII
Upper(s) == [i \in 1..Len(s) |-> IF s[i] \in 97..122 THEN s[i] - 32 ELSE s[i]]

\* str.capitalize(): first character upper-cased, the rest lower-cased
Capitalize(s) ==
    [i \in 1..Len(s) |->
        IF i = 1
        THEN (IF s[i] \in 97..122 THEN s[i] - 32 ELSE s[i])
        ELSE (IF s[i] \in 65..90 THEN s[i] + 32 ELSE s[i])]

\* text[::-1]
Reversed(s) == [i \in 1..Len(s) |-> s[Len(s) + 1 - i]]

\* sub in s
In(sub, s) ==
    \E i \in 0..(Len(s) - Len(sub)) : \A j \in 1..Len(sub) : s[i + j] = sub[j]

(* ------------------------------ helpers -------------------------------- *)

Abs(n) == IF n < 0 THEN -n ELSE n

\* mutant: the "multiply" threshold taken as value >= 10
_internal_helper_ge(key, value) ==
    LET n == IntOf(value) IN
    IF key = "multiply"
    THEN (IF n >= 10 THEN PyInt(n * 2) ELSE PyInt(n * 3))
    ELSE IF key = "add"
    THEN (IF n < 0
          THEN (IF Abs(n) > 100 THEN PyInt(n + 200) ELSE PyInt(n + 50))
          ELSE PyInt(n + 10))
    ELSE value

\* The arithmetic branches yield an int (also for a bool argument); the
\* final else returns the argument object itself.
_internal_helper(key, value) ==
    LET n == IntOf(value) IN
    IF key = "multiply"
    THEN (IF n > 10 THEN PyInt(n * 2) ELSE PyInt(n * 3))
    ELSE IF key = "add"
    THEN (IF n < 0
          THEN (IF Abs(n) > 100 THEN PyInt(n + 200) ELSE PyInt(n + 50))
          ELSE PyInt(n + 10))
    ELSE value

\* mutant: the two keyword tests in the other order
_another_internal_helper_swapped(text) ==
    IF In(SUCCESS_LC, Lower(text))
    THEN Capitalize(text)
    ELSE IF In(ERROR_LC, Lower(text))
    THEN Upper(text)
    ELSE Reversed(text)

_another_internal_helper(text) ==
    IF In(ERROR_LC, Lower(text))
    THEN Upper(text)
    ELSE IF In(SUCCESS_LC, Lower(text))
    THEN Capitalize(text)
    ELSE Reversed(text)

(* --------------------------- process_config ---------------------------- *)

\* elem * 2 for an element that passed isinstance(elem, (int, float))
Times2(elem) ==
    IF elem.t = "float" THEN PyFloat(elem.v * 2) ELSE PyInt(IntOf(elem) * 2)

\* mutant: the filter taken as isinstance(elem, int)
LongListBranchIntOnly(list_val) ==
    LET kept == SelectSeq(list_val, IsInstanceInt)
    IN  [i \in 1..Len(kept) |-> Times2(kept[i])]

\* [elem * 2 for elem in list_val if isinstance(elem, (int, float))]
LongListBranch(list_val) ==
    LET kept == SelectSeq(list_val, IsInstanceIntFloat)
    IN  [i \in 1..Len(kept) |-> Times2(kept[i])]

\* mutant: list elements sent through the "add" rule
ShortListElemAdd(elem) ==
    IF IsInstanceInt(elem)
    THEN _internal_helper("add", elem)
    ELSE IF IsInstanceStr(elem)
    THEN PyStr(_another_internal_helper(elem.v))
    ELSE elem

\* one iteration of "for elem in list_val": the value appended to new_list
ShortListElem(elem) ==
    IF IsInstanceInt(elem)
    THEN _internal_helper("multiply", elem)
    ELSE IF IsInstanceStr(elem)
    THEN PyStr(_another_internal_helper(elem.v))
    ELSE elem

ShortListBranch(list_val) ==
    [i \in 1..Len(list_val) |-> ShortListElem(list_val[i])]

\* mutant: dict values sent through the "multiply" rule
DictValueMultiply(d_value) ==
    IF IsInstanceInt(d_value)
    THEN _internal_helper("multiply", d_value)
    ELSE IF IsInstanceStr(d_value)
    THEN PyStr(_another_internal_helper(d_value.v))
    ELSE d_value

\* one iteration of "for d_key, d_value in dict_val.items()"
DictValue(d_value) ==
    IF IsInstanceInt(d_value)
    THEN _internal_helper("add", d_value)
    ELSE IF IsInstanceStr(d_value)
    THEN PyStr(_another_internal_helper(d_value.v))
    ELSE d_value

\* nested_result starts empty and the keys of dict_val are distinct, so
\* every assignment appends: the items come out in the order of dict_val
DictBranch(dict_val) ==
    [i \in 1..Len(dict_val) |-> Item(dict_val[i].key, DictValue(dict_val[i].value))]

ListBranch(list_val) ==
    IF Len(list_val) > 5
    THEN LongListBranch(list_val)
    ELSE ShortListBranch(list_val)

\* mutant: the int arm calls the helper with a fixed selector
MatchValueFixedSelector(key, value) ==
    CASE value.t = "str" -> PyStr(_another_internal_helper(value.v))
      [] value.t \in {"int", "bool"} -> _internal_helper("multiply", value)
      [] value.t = "list" -> PyList(ListBranch(value.v))
      [] value.t = "dict" -> PyDict(DictBranch(value.v))
      [] OTHER -> value

\* mutant: the int arm written as "case int() | float()"
MatchValueFloatArm(key, value) ==
    CASE value.t = "str" -> PyStr(_another_internal_helper(value.v))
      [] value.t \in {"int", "bool", "float"} -> _internal_helper(key, value)
      [] value.t = "list" -> PyList(ListBranch(value.v))
      [] value.t = "dict" -> PyDict(DictBranch(value.v))
      [] OTHER -> value

\* the match statement: the value stored under key
MatchValue(key, value) ==
    CASE value.t = "str" -> PyStr(_another_internal_helper(value.v))
      [] value.t \in {"int", "bool"} -> _internal_helper(key, value)
      [] value.t = "list" -> PyList(ListBranch(value.v))
      [] value.t = "dict" -> PyDict(DictBranch(value.v))
      [] OTHER -> value

\* mutant: a match statement without the catch-all arm
LoopBodyNoCatchAll(state, key, value) ==
    IF value.t \in {"str", "int", "bool", "list", "dict"}
    THEN DictSet(state, key, MatchValue(key, value))
    ELSE state

\* mutant: a key already in internal_state is recomputed from what is stored
LoopBodyFromState(state, key, value) ==
    IF DictHas(state, key)
    THEN DictSet(state, key, MatchValue(key, DictGet(state, key)))
    ELSE DictSet(state, key, MatchValue(key, value))

\* the body of the for loop: self.internal_state[key] = <matched value>
LoopBody(state, key, value) == DictSet(state, key, MatchValue(key, value))

(* --------------------- trace of the helper calls ----------------------- *)

NumCall(key, value) ==
    [fn |-> "_internal_helper", key |-> key, arg |-> value,
     ret |-> _internal_helper(key, value)]

TextCall(text) ==
    [fn |-> "_another_internal_helper", key |-> "", arg |-> PyStr(text),
     ret |-> PyStr(_another_internal_helper(text))]

\* the helper call made for one element of a short list, if any
ShortListElemCalls(elem) ==
    IF IsInstanceInt(elem) THEN <<NumCall("multiply", elem)>>
    ELSE IF IsInstanceStr(elem) THEN <<TextCall(elem.v)>>
    ELSE <<>>

\* the helper call made for one value of a nested dict, if any
DictValueCalls(d_value) ==
    IF IsInstanceInt(d_value) THEN <<NumCall("add", d_value)>>
    ELSE IF IsInstanceStr(d_value) THEN <<TextCall(d_value.v)>>
    ELSE <<>>

RECURSIVE Flatten(_)
Flatten(ss) == IF ss = <<>> THEN <<>> ELSE Head(ss) \o Flatten(Tail(ss))

\* the helper calls made while one entry is processed, in call order
MatchCalls(key, value) ==
    CASE value.t = "str" -> <<TextCall(value.v)>>
      [] value.t \in {"int", "bool"} -> <<NumCall(key, value)>>
      [] value.t = "list" ->
            IF Len(value.v) > 5
            THEN <<>>
            ELSE Flatten([i \in 1..Len(value.v) |-> ShortListElemCalls(value.v[i])])
      [] value.t = "dict" ->
            Flatten([i \in 1..Len(value.v) |-> DictValueCalls(value.v[i].value)])
      [] OTHER -> <<>>

(* ------------------------------ actions -------------------------------- *)

\* entry of process_config: the for loop starts at the first item
process_config_begin ==
    /\ pc = "idle"
    /\ calls < MaxCalls
    /\ pc' = "running"
    /\ idx' = 1
    /\ written' = <<>>
    /\ helper_log' = <<>>
    /\ UNCHANGED <<config, internal_state, calls, printed>>

\* one iteration of "for key, value in self.config.items()"
process_config_entry ==
    /\ pc = "running"
    /\ idx <= Len(config)
    /\ LET key == config[idx].key
           value == config[idx].value
       IN  /\ internal_state' = LoopBody(internal_state, key, value)
           /\ written' = Append(written, key)
           /\ helper_log' = MatchCalls(key, value)
    /\ idx' = idx + 1
    /\ UNCHANGED <<config, pc, calls, printed>>

\* the for loop is exhausted and process_config returns
process_config_return ==
    /\ pc = "running"
    /\ idx > Len(config)
    /\ pc' = "idle"
    /\ calls' = calls + 1
    /\ UNCHANGED <<config, internal_state, idx, written, helper_log, printed>>

\* show_state prints internal_state
show_state ==
    /\ pc = "idle"
    /\ printed' = internal_state
    /\ UNCHANGED <<config, internal_state, pc, idx, calls, written, helper_log>>

Next ==
    \/ process_config_begin
    \/ process_config_entry
    \/ process_config_return
    \/ show_state

(* ------------------------------ inputs --------------------------------- *)

Keys == {"multiply", "add", "textData"}

\* dicts of at most n items with distinct keys from K and values from V
Dicts(K, V, n) ==
    UNION {{d \in [1..m -> [key : K, value : V]] :
                \A i, j \in 1..m : i # j => d[i].key # d[j].key} : m \in 0..n}

\* lists of at most n elements from V
Lists(V, n) == UNION {[1..m -> V] : m \in 0..n}

\* __init__: the instance keeps the config and an empty internal_state
InitWith(cfg) ==
    /\ config = cfg
    /\ internal_state = <<>>
    /\ pc = "idle"
    /\ idx = 0
    /\ calls = 0
    /\ written = <<>>
    /\ helper_log = <<>>
    /\ printed = <<>>

\* the values of complex_config in main, and one more of each kind
THIS_MIGHT == <<84, 104, 105, 115, 32, 101, 114, 114, 111, 114>>
SUCCESS_CASE == <<83, 85, 67, 67, 69, 83, 83, 32, 67, 65, 83, 69>>

listData == PyList(<<PyInt(5), PyStr(HELLO), PyFloat(314), PyInt(-2), PyInt(10)>>)

anotherList ==
    PyList(<<PyInt(1), PyInt(2), PyInt(3), PyInt(4), PyInt(5), PyInt(6), PyInt(7)>>)

nestedDict ==
    PyDict(<<Item("innerInt", PyInt(5)), Item("innerText", PyStr(SUCCESS_CASE)),
             Item("ignored", PyFloat(314))>>)

unhandledType == PySet({1, 2, 3})

TopValues ==
    {PyInt(12), PyInt(-20), PyStr(THIS_MIGHT), listData, anotherList, nestedDict,
     unhandledType, PyFloat(314), PyBool(TRUE), PyBool(FALSE), PyNone}

Init == \E cfg \in Dicts(Keys, TopValues, MaxEntries) : InitWith(cfg)

Spec == Init /\ [][Next]_vars

\* integers reaching _internal_helper under every selector: as a top-level
\* value (selector = key), in a short list ("multiply"), in a dict ("add")
NumericValues ==
    UNION {{PyInt(n), PyList(<<PyInt(n)>>), PyDict(<<Item("multiply", PyInt(n))>>)} :
              n \in (-MaxAbs)..MaxAbs}
    \cup {PyBool(TRUE), PyBool(FALSE)}

InitNumeric ==
    \E k \in Keys, x \in NumericValues : InitWith(<<Item(k, x)>>)

SpecNumeric == InitNumeric /\ [][Next]_vars

\* strings glued from pieces that make, miss and mix the two keywords
Pieces ==
    {ERROR_LC, <<69, 82, 82, 79, 82>>, <<101, 82, 114, 79, 114>>,
     <<101, 114, 114, 111>>, <<114>>,
     SUCCESS_LC, <<83, 85, 67, 67, 69, 83, 83>>, <<83, 117, 99, 99, 101, 115>>,
     <<115>>, <<97>>, <<66>>, <<32>>, <<55>>}

RECURSIVE Glued(_)
Glued(n) ==
    IF n = 0 THEN {<<>>}
    ELSE Glued(n - 1) \cup {s \o p : s \in Glued(n - 1), p \in Pieces}

InitText ==
    \E s \in Glued(MaxPieces) : InitWith(<<Item("textData", PyStr(s))>>)

SpecText == InitText /\ [][Next]_vars

ListElems ==
    {PyInt(10), PyStr(HELLO), PyFloat(314), PyBool(TRUE), PyList(<<PyInt(1)>>),
     PyDict(<<Item("multiply", PyInt(1))>>)}

InitList ==
    \E l \in Lists(ListElems, MaxListLen) : InitWith(<<Item("add", PyList(l))>>)

SpecList == InitList /\ [][Next]_vars

InnerKeys == {"multiply", "add", "innerText", "ignored"}

DictElems ==
    {PyInt(5), PyInt(-150), PyStr(SUCCESS_CASE), PyFloat(314), PyBool(TRUE),
     PyDict(<<Item("add", PyInt(1))>>)}

InitDict ==
    \E k \in {"multiply", "textData"}, d \in Dicts(InnerKeys, DictElems, MaxDictLen) :
        InitWith(<<Item(k, PyDict(d))>>)

SpecDict == InitDict /\ [][Next]_vars

(* ------------------- the rules as the claims state them ---------------- *)

IsUpperChar(c) == c >= 65 /\ c <= 90

IsLowerChar(c) == c >= 97 /\ c <= 122

ToUpperChar(c) == IF IsLowerChar(c) THEN c - 32 ELSE c

ToLowerChar(c) == IF IsUpperChar(c) THEN c + 32 ELSE c

\* word occurs in s when case is ignored (word is lower case)
OccursIgnoringCase(word, s) ==
    \E start \in 1..Len(s) :
        /\ start + Len(word) - 1 <= Len(s)
        /\ \A j \in 1..Len(word) : ToLowerChar(s[start + j - 1]) = word[j]

\* r is what the text rule must return for s
IsTextRuleResult(s, r) ==
    /\ Len(r) = Len(s)
    /\ IF OccursIgnoringCase(ERROR_LC, s)
       THEN \A i \in 1..Len(s) : r[i] = ToUpperChar(s[i])
       ELSE IF OccursIgnoringCase(SUCCESS_LC, s)
       THEN /\ r[1] = ToUpperChar(s[1])
            /\ \A i \in 2..Len(s) : r[i] = ToLowerChar(s[i])
       ELSE \A i \in 1..Len(s) : r[Len(s) + 1 - i] = s[i]

\* the numeric rule for selector k and integer n
NumericRule(k, n) ==
    CASE k = "multiply" /\ n > 10 -> 2 * n
      [] k = "multiply" /\ n <= 10 -> 3 * n
      [] k = "add" /\ n < -100 -> n + 200
      [] k = "add" /\ n >= -100 /\ n < 0 -> n + 50
      [] k = "add" /\ n >= 0 -> n + 10
      [] OTHER -> n

\* process_config has returned at least once
Returned == pc = "idle" /\ calls > 0

(* ------------------------------- claims -------------------------------- *)

\* C1: after process_config returns, internal_state has exactly the keys of
\* config, each of them once: no key is skipped and none is added.
C1_KeySetPreserved ==
    Returned =>
        /\ DictKeys(internal_state) = DictKeys(config)
        /\ Len(internal_state) = Cardinality(DictKeys(config))

C1_Witness ==
    /\ Returned
    /\ Len(config) = 2
    /\ config[1].value = unhandledType
    /\ config[2].value = PyNone
    /\ DictKeys(internal_state) = {config[1].key, config[2].key}

\* C2: every call _internal_helper(k, v) returns 2v (v > 10) or 3v for
\* k = "multiply"; v+200 (v < -100), v+50 (-100 <= v < 0) or v+10 for
\* k = "add"; and v unchanged for any other k.
C2_NumericRule ==
    \A i \in 1..Len(helper_log) :
        LET c == helper_log[i] IN
        c.fn = "_internal_helper" =>
            /\ IntOf(c.ret) = NumericRule(c.key, IntOf(c.arg))
            /\ c.key \notin {"multiply", "add"} => c.ret = c.arg

C2_Witness ==
    /\ Len(helper_log) = 1
    /\ helper_log[1].fn = "_internal_helper"
    /\ helper_log[1].key = "multiply"
    /\ helper_log[1].arg = PyInt(10)
    /\ helper_log[1].ret = PyInt(30)

\* C3: every call _another_internal_helper(s) returns s upper-cased when s
\* contains "error" ignoring case (also when it contains "success" too),
\* else s capitalized when it contains "success" ignoring case, else s
\* reversed with its casing kept.
C3_TextRule ==
    \A i \in 1..Len(helper_log) :
        LET c == helper_log[i] IN
        c.fn = "_another_internal_helper" =>
            /\ c.ret.t = "str"
            /\ IsTextRuleResult(c.arg.v, c.ret.v)

\* "success" followed by "ERROR": the error branch wins
C3_Witness ==
    /\ Len(helper_log) = 1
    /\ helper_log[1].fn = "_another_internal_helper"
    /\ helper_log[1].arg = PyStr(SUCCESS_LC \o <<69, 82, 82, 79, 82>>)
    /\ helper_log[1].ret = PyStr(<<83, 85, 67, 67, 69, 83, 83, 69, 82, 82, 79, 82>>)

\* the value stored for the only entry of a one-entry config
Stored == internal_state[1].value

\* what a short list or a nested dict must hold for the input value x when
\* integers go through the numeric rule with selector k
IsRuleResult(k, x, r) ==
    CASE x.t \in {"int", "bool"} -> r = PyInt(NumericRule(k, IntOf(x)))
      [] x.t = "str" -> r.t = "str" /\ IsTextRuleResult(x.v, r.v)
      [] OTHER -> r = x

\* C4: a top-level list of length <= 5 is stored as a list of the same
\* length whose position i holds the "multiply" rule of element i when it is
\* an integer, the text rule when it is text, and element i itself otherwise
\* (nested lists and dicts are not entered).
C4_ShortList ==
    (Returned /\ Len(config) = 1 /\ config[1].value.t = "list"
        /\ Len(config[1].value.v) <= 5) =>
        /\ Stored.t = "list"
        /\ Len(Stored.v) = Len(config[1].value.v)
        /\ \A i \in 1..Len(Stored.v) :
              IsRuleResult("multiply", config[1].value.v[i], Stored.v[i])

C4_Witness ==
    /\ Returned
    /\ config[1].value =
          PyList(<<PyInt(10), PyStr(HELLO), PyFloat(314), PyList(<<PyInt(1)>>),
                   PyInt(10)>>)
    /\ Stored =
          PyList(<<PyInt(30), PyStr(<<111, 108, 108, 101, 104>>), PyFloat(314),
                   PyList(<<PyInt(1)>>), PyInt(30)>>)

\* the numeric elements of l, each doubled, in the order of l
RECURSIVE DoubledNumerics(_)
DoubledNumerics(l) ==
    IF l = <<>> THEN <<>>
    ELSE LET e == Head(l)
             first == CASE e.t = "float" -> <<PyFloat(2 * e.v)>>
                        [] e.t \in {"int", "bool"} -> <<PyInt(2 * IntOf(e))>>
                        [] OTHER -> <<>>
         IN  first \o DoubledNumerics(Tail(l))

\* C5: a top-level list of length > 5 is stored as the list of its numeric
\* (int or float) elements, each multiplied by 2, in the original order;
\* non-numeric elements have no entry and neither helper is called.
C5_LongList ==
    (Returned /\ Len(config) = 1 /\ config[1].value.t = "list"
        /\ Len(config[1].value.v) > 5) =>
        /\ Stored = PyList(DoubledNumerics(config[1].value.v))
        /\ helper_log = <<>>

C5_Witness ==
    /\ Returned
    /\ config[1].value =
          PyList(<<PyInt(10), PyStr(HELLO), PyFloat(314), PyList(<<PyInt(1)>>),
                   PyInt(10), PyFloat(314)>>)
    /\ Stored = PyList(<<PyInt(20), PyFloat(628), PyInt(20), PyFloat(628)>>)

\* C6: a top-level dict is stored as a dict with the same keys, where each
\* integer value went through the "add" rule (whatever the inner and the
\* outer key), each text value through the text rule, and any other value is
\* kept.
C6_NestedDict ==
    (Returned /\ Len(config) = 1 /\ config[1].value.t = "dict") =>
        /\ Stored.t = "dict"
        /\ DictKeys(Stored.v) = DictKeys(config[1].value.v)
        /\ Len(Stored.v) = Len(config[1].value.v)
        /\ \A k \in DictKeys(config[1].value.v) :
              IsRuleResult("add", DictGet(config[1].value.v, k), DictGet(Stored.v, k))

C6_Witness ==
    /\ Returned
    /\ config[1].key = "multiply"
    /\ config[1].value =
          PyDict(<<Item("multiply", PyInt(-150)), Item("innerText", PyStr(SUCCESS_CASE)),
                   Item("add", PyFloat(314))>>)
    /\ Stored =
          PyDict(<<Item("multiply", PyInt(50)),
                   Item("innerText",
                        PyStr(<<83, 117, 99, 99, 101, 115, 115, 32, 99, 97, 115, 101>>)),
                   Item("add", PyFloat(314))>>)

\* C7: a top-level integer is stored as the numeric rule of it with the
\* entry's own key as selector: the "multiply" rule under key "multiply",
\* the "add" rule under key "add", the value itself under any other key.
C7_KeyIsSelector ==
    (Returned /\ Len(config) = 1 /\ config[1].value.t = "int") =>
        LET key == config[1].key
            n == config[1].value.v
        IN  /\ key = "multiply" => Stored = PyInt(NumericRule("multiply", n))
            /\ key = "add" => Stored = PyInt(NumericRule("add", n))
            /\ key \notin {"multiply", "add"} => Stored = PyInt(n)

C7_Witness ==
    /\ Returned
    /\ config = <<Item("add", PyInt(-20))>>
    /\ internal_state = <<Item("add", PyInt(30))>>

\* C8 as stated: every top-level value that is not text, not an int, not a
\* list and not a dict (a float, a bool, a set, None) is stored unchanged
\* under its key, whatever the key.
C8_Original ==
    Returned =>
        \A i \in 1..Len(config) :
            config[i].value.t \notin {"str", "int", "list", "dict"} =>
                DictGet(internal_state, config[i].key) = config[i].value

\* C8 amended: every top-level value that is not text, not an int or bool
\* (Python's bool is an int), not a list and not a dict is stored unchanged
\* under its key, whatever the key.
C8_PassThrough ==
    Returned =>
        \A i \in 1..Len(config) :
            config[i].value.t \notin {"str", "int", "bool", "list", "dict"} =>
                DictGet(internal_state, config[i].key) = config[i].value

C8_Witness ==
    /\ Returned
    /\ config = <<Item("multiply", PyFloat(314)), Item("add", unhandledType)>>
    /\ internal_state = config

\* C9: the value stored for a key is a function of that key and its own
\* value only: whatever the order of the entries and whatever internal_state
\* held before, every key written so far holds MatchValue of its own entry.
C9_EntriesIndependent ==
    \A i \in 1..Len(config) :
        (pc = "idle" /\ calls > 0) \/ (pc = "running" /\ i < idx) =>
            DictGet(internal_state, config[i].key)
                = MatchValue(config[i].key, config[i].value)

\* second call, two entries, the second being written on top of old state
C9_Witness ==
    /\ pc = "running"
    /\ calls = 1
    /\ idx = 3
    /\ config = <<Item("add", PyInt(-20)), Item("multiply", PyInt(12))>>
    /\ internal_state = <<Item("add", PyInt(30)), Item("multiply", PyInt(24))>>

\* the keys of config in iteration order
KeysInOrder == [i \in 1..Len(config) |-> config[i].key]

\* during and after a call, the writes so far are one per processed key
OneWritePerKey ==
    /\ pc = "running" => written = SubSeq(KeysInOrder, 1, idx - 1)
    /\ Returned => written = KeysInOrder

\* outside a call nothing assigns to internal_state
StableOutsideCall == pc = "idle" => internal_state' = internal_state

\* C10 as stated: internal_state is empty at the start of each call, gets
\* one write per key during the call and is not mutated after the return.
C10_Original ==
    /\ []((pc = "running" /\ idx = 1) => internal_state = <<>>)
    /\ []OneWritePerKey
    /\ [][StableOutsideCall]_vars

\* C10 amended: internal_state is created empty once, by __init__, and is
\* not reset by process_config; each call makes one write per key of config,
\* overwriting the entry of an earlier call, so that after each call
\* internal_state has one entry per key of config; outside a call it is not
\* mutated.
C10_Lifecycle ==
    /\ []((pc = "idle" /\ calls = 0) => internal_state = <<>>)
    /\ []((pc = "running" /\ idx = 1 /\ calls > 0) =>
              DictKeys(internal_state) = DictKeys(config))
    /\ []OneWritePerKey
    /\ [](Returned => Len(internal_state) = Len(written))
    /\ [][StableOutsideCall]_vars

\* the start of a second call: the entries of the first call are still there
C10_Witness ==
    /\ pc = "running"
    /\ calls = 1
    /\ idx = 1
    /\ written = <<>>
    /\ Len(config) = 2
    /\ Len(internal_state) = 2

====
